---------------------------- MODULE Spec2Model ----------------------------
(***************************************************************************)
(* A model of the YES TV backend (server/src/server.js, storage.js):       *)
(* the in-memory OTP cache, the client directory kept in clients.json,     *)
(* the catalog merge behind POST /admin/catalog, the playback log and the  *)
(* file writes of writeJson.                                               *)
(*                                                                         *)
(* Strings that the code trims, lower-cases, concatenates or compares are  *)
(* sequences of one-character strings, so that the conversions are         *)
(* computed.  Request fields the code type-tests are tagged values         *)
(* [t |-> "undefined"], [t |-> "string", s |-> ...], [t |-> "number", ...].*)
(* Every handler is synchronous (readFileSync / writeFileSync), so each    *)
(* handler is one atomic action.                                           *)
(***************************************************************************)
EXTENDS Integers, Sequences, FiniteSets, TLC

VARIABLES
    clock,      \* Date.now(), in milliseconds
    ticks,      \* number of clock advances so far (bounds the model)
    otpCache,   \* the Map otpCache: phone -> [code, expiresAt]
    clients,    \* the content of clients.json, a sequence of records
    resp,       \* the request handled last, with its response
    okCount,    \* history: phone -> successful validations since last issue
    revoked,    \* history: phone -> codes overwritten while still pending
    catalog,    \* the content of catalog.json, a sequence of items
    logs,       \* the content of logs.json, a sequence of entries
    posts,      \* number of POST /logs/playback so far (bounds the model)
    disk,       \* the data directory: path -> text of the file at that path
    writer      \* the writeJson call in progress, if any

vars == <<clock, ticks, otpCache, clients, resp, okCount, revoked,
          catalog, logs, posts, disk, writer>>

\* The playback log and the files under a write, which the OTP, client and
\* catalog handlers never touch
storeVars == <<logs, posts, disk, writer>>

-----------------------------------------------------------------------------
(* Bounds of the model *)

MaxTicks == 1

MaxExisting == 2

MaxIncoming == 2

MaxPosts == 2

(* Program constants *)

OTP_TTL_MS == 5 * 60 * 1000

MAX_LOG_ENTRIES == 200

-----------------------------------------------------------------------------
(* JavaScript values and strings *)

Undef == [t |-> "undefined"]

JNull == [t |-> "null"]

Str(s) == [t |-> "string", s |-> s]

Num(n) == [t |-> "number", n |-> n]

\* JavaScript truthiness of the tagged values
Truthy(v) ==
    CASE v.t = "undefined" -> FALSE
      [] v.t = "null" -> FALSE
      [] v.t = "string" -> v.s # <<>>
      [] v.t = "number" -> v.n # 0
      [] OTHER -> TRUE

IsSpace(c) == c = " "

RECURSIVE trimStart(_)
trimStart(s) ==
    IF s # <<>> /\ IsSpace(Head(s)) THEN trimStart(Tail(s)) ELSE s

RECURSIVE trimEnd(_)
trimEnd(s) ==
    IF s # <<>> /\ IsSpace(s[Len(s)])
    THEN trimEnd(SubSeq(s, 1, Len(s) - 1))
    ELSE s

\* String.prototype.trim
trim(s) == trimEnd(trimStart(s))

LowerChar(c) ==
    CASE c = "A" -> "a"
      [] c = "C" -> "c"
      [] c = "E" -> "e"
      [] c = "I" -> "i"
      [] c = "M" -> "m"
      [] c = "T" -> "t"
      [] c = "V" -> "v"
      [] OTHER -> c

\* String.prototype.toLowerCase
toLowerCase(s) == [i \in 1..Len(s) |-> LowerChar(s[i])]

DigitChar(d) == <<"0", "1", "2", "3", "4", "5", "6", "7", "8", "9">>[d + 1]

\* Number.prototype.toString for a non-negative integer
RECURSIVE NumToString(_)
NumToString(n) ==
    IF n < 10 THEN <<DigitChar(n)>>
    ELSE NumToString(n \div 10) \o <<DigitChar(n % 10)>>

\* req.body?.phone?.toString().trim(): undefined stays undefined
TrimmedField(v) ==
    IF v.t = "undefined" THEN Undef
    ELSE IF v.t = "number" THEN Str(trim(NumToString(v.n)))
    ELSE Str(trim(v.s))

\* new Date().toISOString() at time t; null is the empty sequence
toISOString(t) == <<t>>

NULL == <<>>

Range(s) == {s[i] : i \in 1..Len(s)}

-----------------------------------------------------------------------------
(* The OTP cache *)

\* The values Math.random() leads generateOtp to: the ends of 100000..999999
OtpDraws == {100000, 999999}

generateOtp(n) == NumToString(n)

Has(cache, phone) == phone \in DOMAIN cache

storeOtp_keepPending(cache, phone, code, t) ==
    IF Has(cache, phone) THEN cache
    ELSE (phone :> [code |-> code, expiresAt |-> t + OTP_TTL_MS]) @@ cache

storeOtp(cache, phone, code, t) ==
    (phone :> [code |-> code, expiresAt |-> t + OTP_TTL_MS]) @@ cache

Delete(cache, phone) == [p \in (DOMAIN cache) \ {phone} |-> cache[p]]

validateOtp_noConsume(cache, phone, code, t) ==
    IF ~Has(cache, phone) THEN [ok |-> FALSE, cache |-> cache]
    ELSE IF cache[phone].expiresAt < t
         THEN [ok |-> FALSE, cache |-> Delete(cache, phone)]
         ELSE [ok |-> cache[phone].code = code, cache |-> cache]

validateOtp_expireAtDeadline(cache, phone, code, t) ==
    IF ~Has(cache, phone) THEN [ok |-> FALSE, cache |-> cache]
    ELSE IF cache[phone].expiresAt <= t
         THEN [ok |-> FALSE, cache |-> Delete(cache, phone)]
         ELSE IF cache[phone].code = code
              THEN [ok |-> TRUE, cache |-> Delete(cache, phone)]
              ELSE [ok |-> FALSE, cache |-> cache]

validateOtp_burnOnMismatch(cache, phone, code, t) ==
    IF ~Has(cache, phone) THEN [ok |-> FALSE, cache |-> cache]
    ELSE IF cache[phone].expiresAt < t
         THEN [ok |-> FALSE, cache |-> Delete(cache, phone)]
         ELSE [ok |-> cache[phone].code = code, cache |-> Delete(cache, phone)]

validateOtp_anyCode(cache, phone, code, t) ==
    IF ~Has(cache, phone) THEN [ok |-> FALSE, cache |-> cache]
    ELSE IF cache[phone].expiresAt < t
         THEN [ok |-> FALSE, cache |-> Delete(cache, phone)]
         ELSE [ok |-> TRUE, cache |-> Delete(cache, phone)]

\* validateOtp returns a boolean and may delete the entry: both are returned
validateOtp_sweepsExpired(cache, phone, code, t) ==
    LET live == [p \in {q \in DOMAIN cache : cache[q].expiresAt >= t}
                   |-> cache[p]]
    IN  IF ~Has(cache, phone) THEN [ok |-> FALSE, cache |-> live]
        ELSE IF cache[phone].expiresAt < t
             THEN [ok |-> FALSE, cache |-> live]
             ELSE IF cache[phone].code = code
                  THEN [ok |-> TRUE, cache |-> Delete(live, phone)]
                  ELSE [ok |-> FALSE, cache |-> live]

validateOtp(cache, phone, code, t) ==
    IF ~Has(cache, phone) THEN [ok |-> FALSE, cache |-> cache]
    ELSE IF cache[phone].expiresAt < t
         THEN [ok |-> FALSE, cache |-> Delete(cache, phone)]
         ELSE IF cache[phone].code = code
              THEN [ok |-> TRUE, cache |-> Delete(cache, phone)]
              ELSE [ok |-> FALSE, cache |-> cache]

-----------------------------------------------------------------------------
(* The client directory (clients.json) *)

\* Array.prototype.findIndex, 1-based; 0 when nothing matches
FindByPhone(cl, phone) ==
    IF \E i \in 1..Len(cl) : cl[i].phone = phone
    THEN CHOOSE i \in 1..Len(cl) :
            /\ cl[i].phone = phone
            /\ \A j \in 1..(i - 1) : cl[j].phone # phone
    ELSE 0

FindById(cl, id) ==
    IF \E i \in 1..Len(cl) : cl[i].id = id
    THEN CHOOSE i \in 1..Len(cl) :
            /\ cl[i].id = id
            /\ \A j \in 1..(i - 1) : cl[j].id # id
    ELSE 0

\* crypto.randomUUID(): an identifier no stored record carries
randomUUID(cl) == Len(cl) + 1

Pending == Str(<<"p", "e", "n", "d", "i", "n", "g">>)

Active == <<"a", "c", "t", "i", "v", "e">>

NewClient(cl, normalized, t) ==
    [id |-> randomUUID(cl),
     name |-> <<"C", "l", "i", "e", "n", "t", "e", " ">> \o normalized,
     phone |-> normalized,
     status |-> Pending,
     createdAt |-> toISOString(t),
     validatedAt |-> NULL]

ensureClientByPhone_alwaysPush(cl, phone, t) ==
    LET normalized == trim(phone)
        created == NewClient(cl, normalized, t)
    IN  IF normalized = <<>> THEN [clients |-> cl, client |-> NULL]
        ELSE [clients |-> Append(cl, created), client |-> created]

ensureClientByPhone_noSave(cl, phone, t) ==
    LET normalized == trim(phone)
        i == FindByPhone(cl, normalized)
    IN  IF normalized = <<>> THEN [clients |-> cl, client |-> NULL]
        ELSE IF i # 0 THEN [clients |-> cl, client |-> cl[i]]
        ELSE [clients |-> cl, client |-> NewClient(cl, normalized, t)]

\* ensureClientByPhone returns the client and may save the list: both returned
ensureClientByPhone(cl, phone, t) ==
    LET normalized == trim(phone)
        i == FindByPhone(cl, normalized)
        created == NewClient(cl, normalized, t)
    IN  IF normalized = <<>> THEN [clients |-> cl, client |-> NULL]
        ELSE IF i # 0 THEN [clients |-> cl, client |-> cl[i]]
        ELSE [clients |-> Append(cl, created), client |-> created]

\* The status and validatedAt that PATCH writes into the addressed record
PatchedFields_caseSensitive(old, status, t) ==
    [status |-> status,
     validatedAt |->
        IF status.s = Active THEN toISOString(t) ELSE old.validatedAt]

PatchedFields(old, status, t) ==
    [status |-> status,
     validatedAt |->
        IF toLowerCase(status.s) = Active
        THEN toISOString(t)
        ELSE old.validatedAt]

patchClient_renames(cl, id, status, t) ==
    LET index == FindById(cl, id)
    IN  IF ~Truthy(status) THEN [http |-> 400, clients |-> cl, body |-> NULL]
        ELSE IF index = 0 THEN [http |-> 404, clients |-> cl, body |-> NULL]
        ELSE IF status.t # "string"
             THEN [http |-> 500, clients |-> cl, body |-> NULL]
        ELSE LET f == PatchedFields(cl[index], status, t)
                 patched == [cl[index] EXCEPT !.status = f.status,
                                              !.validatedAt = f.validatedAt,
                                              !.name = <<>>]
             IN  [http |-> 200,
                  clients |-> [cl EXCEPT ![index] = patched],
                  body |-> patched]

patchClient_writesFirst(cl, id, status, t) ==
    LET index == FindById(cl, id)
        written == IF index = 0 THEN cl
                   ELSE [cl EXCEPT ![index].status = status]
    IN  IF ~Truthy(status)
        THEN [http |-> 400, clients |-> written, body |-> NULL]
        ELSE IF index = 0 THEN [http |-> 404, clients |-> cl, body |-> NULL]
        ELSE IF status.t # "string"
             THEN [http |-> 500, clients |-> cl, body |-> NULL]
        ELSE LET f == PatchedFields(cl[index], status, t)
                 patched == [cl[index] EXCEPT !.status = f.status,
                                              !.validatedAt = f.validatedAt]
             IN  [http |-> 200,
                  clients |-> [cl EXCEPT ![index] = patched],
                  body |-> patched]

\* The body of PATCH /admin/clients/:id on the list cl
patchClient(cl, id, status, t) ==
    LET index == FindById(cl, id)
    IN  IF ~Truthy(status) THEN [http |-> 400, clients |-> cl, body |-> NULL]
        ELSE IF index = 0 THEN [http |-> 404, clients |-> cl, body |-> NULL]
        ELSE IF status.t # "string"
             \* status.toLowerCase is not a function: the error handler answers
             THEN [http |-> 500, clients |-> cl, body |-> NULL]
        ELSE LET f == PatchedFields(cl[index], status, t)
                 patched == [cl[index] EXCEPT !.status = f.status,
                                              !.validatedAt = f.validatedAt]
             IN  [http |-> 200,
                  clients |-> [cl EXCEPT ![index] = patched],
                  body |-> patched]

\* client.status ?? "pending"
StatusOrPending(status) ==
    IF status.t \in {"undefined", "null"} THEN Pending ELSE status

-----------------------------------------------------------------------------
(* Requests *)

RawPhones ==
    {Undef, Str(<<" ">>), Str(<<"5">>), Str(<<" ", "5", " ">>)}

\* The keys the OTP map can get: the non-empty trimmed phones
PhoneKeys == {trim(v.s) : v \in RawPhones \ {Undef}} \ {<<>>}

RawOtps ==
    {Undef, Str(<<"0", "0", "0", "0", "0", "0">>),
     Str(<<" ">> \o generateOtp(100000) \o <<" ">>),
     Str(generateOtp(999999))}

StatusInputs ==
    {Undef, Num(1), Str(Active), Str(<<"A", "c", "t", "i", "v", "e">>),
     Pending}

\* The ids PATCH is sent: that of the record the requests below create, and
\* one that no record carries.  The record clients.json starts with is the
\* one a PATCH must leave alone.
Uuids == {2, 3}

\* The clock advances to the expiry of a code issued just before, or one
\* millisecond past it
TickSteps == {OTP_TTL_MS, OTP_TTL_MS + 1}

\* A record that an earlier run of the server left in clients.json
SeedClient == NewClient(<<>>, <<"6">>, 0)

InitialClients == {<<SeedClient>>}

Init ==
    /\ clock = 0
    /\ ticks = 0
    /\ otpCache = <<>>
    /\ clients \in InitialClients
    /\ resp = [op |-> "none"]
    /\ okCount = [p \in PhoneKeys |-> 0]
    /\ revoked = [p \in PhoneKeys |-> {}]
    /\ catalog = <<>>
    /\ logs = <<>>
    /\ posts = 0
    /\ disk = <<>>
    /\ writer = [pc |-> "idle"]

\* Time passes between requests
Tick ==
    /\ ticks < MaxTicks
    /\ \E d \in TickSteps : clock' = clock + d
    /\ ticks' = ticks + 1
    /\ UNCHANGED <<otpCache, clients, resp, okCount, revoked, catalog>>
    /\ UNCHANGED storeVars

\* The common body of POST /auth/request-otp and POST /auth/resend-otp
IssueOtp(op, raw, n) ==
    LET phone == TrimmedField(raw)
    IN  IF ~Truthy(phone)
        THEN /\ resp' = [op |-> op, http |-> 400, phone |-> phone]
             /\ UNCHANGED <<otpCache, clients, okCount, revoked>>
        ELSE LET code == generateOtp(n)
                 ensured == ensureClientByPhone(clients, phone.s, clock)
             IN  /\ clients' = ensured.clients
                 /\ otpCache' = storeOtp(otpCache, phone.s, code, clock)
                 /\ resp' = [op |-> op, http |-> 200, phone |-> phone,
                             code |-> code]
                 /\ okCount' = [okCount EXCEPT ![phone.s] = 0]
                 /\ revoked' =
                      IF Has(otpCache, phone.s)
                      THEN [revoked EXCEPT
                              ![phone.s] = @ \cup {otpCache[phone.s].code}]
                      ELSE revoked

RequestOtp ==
    /\ \E raw \in RawPhones, n \in OtpDraws : IssueOtp("request-otp", raw, n)
    /\ UNCHANGED <<clock, ticks, catalog>>
    /\ UNCHANGED storeVars

ResendOtp ==
    /\ \E raw \in RawPhones, n \in OtpDraws : IssueOtp("resend-otp", raw, n)
    /\ UNCHANGED <<clock, ticks, catalog>>
    /\ UNCHANGED storeVars

\* The body of GET /users?phone=..&otp=..
UsersRequest(rawPhone, rawOtp) ==
    LET phone == TrimmedField(rawPhone)
        otp == TrimmedField(rawOtp)
    IN  IF ~Truthy(phone) \/ ~Truthy(otp)
        THEN /\ resp' = [op |-> "users", http |-> 200, phone |-> phone,
                         otp |-> otp, called |-> FALSE, ok |-> FALSE,
                         body |-> <<>>]
             /\ UNCHANGED <<otpCache, clients, okCount>>
        ELSE LET v == validateOtp(otpCache, phone.s, otp.s, clock)
                 i == FindByPhone(clients, phone.s)
                 ensured == ensureClientByPhone(clients, phone.s, clock)
                 client == IF i # 0 THEN clients[i] ELSE ensured.client
             IN  /\ otpCache' = v.cache
                 /\ IF v.ok
                    THEN /\ clients' =
                              IF i # 0 THEN clients ELSE ensured.clients
                         /\ okCount' = [okCount EXCEPT ![phone.s] = @ + 1]
                         /\ resp' =
                              [op |-> "users", http |-> 200,
                               phone |-> phone, otp |-> otp,
                               called |-> TRUE, ok |-> TRUE,
                               body |-> <<[id |-> client.id,
                                           name |-> client.name,
                                           phone |-> client.phone,
                                           status |->
                                             StatusOrPending(client.status)]>>]
                    ELSE /\ resp' = [op |-> "users", http |-> 200,
                                     phone |-> phone, otp |-> otp,
                                     called |-> TRUE, ok |-> FALSE,
                                     body |-> <<>>]
                         /\ UNCHANGED <<clients, okCount>>

GetUsers ==
    /\ \E rawPhone \in RawPhones, rawOtp \in RawOtps :
        UsersRequest(rawPhone, rawOtp)
    /\ UNCHANGED <<clock, ticks, revoked, catalog>>
    /\ UNCHANGED storeVars

\* PATCH /admin/clients/:id with one of the given ids and statuses
Patch(ids, statuses) ==
    /\ \E id \in ids, status \in statuses :
        LET r == patchClient(clients, id, status, clock)
        IN  /\ clients' = r.clients
            /\ resp' = [op |-> "patch", http |-> r.http, id |-> id,
                        status |-> status, body |-> r.body]
    /\ UNCHANGED <<clock, ticks, otpCache, okCount, revoked, catalog>>
    /\ UNCHANGED storeVars

PatchClient == Patch(Uuids, StatusInputs)

Next == Tick \/ RequestOtp \/ ResendOtp \/ GetUsers \/ PatchClient

Spec == Init /\ [][Next]_vars

-----------------------------------------------------------------------------
(* The catalog merge (catalog.json) *)

\* A catalog item: what kind of JSON value it is, the two fields the merge
\* reads, and v, the rest of its content
Item(kind, id, title, v) == [kind |-> kind, id |-> id, title |-> title, v |-> v]

\* !rawItem || typeof rawItem !== "object": null and primitives fail the test,
\* arrays pass it
IsObject(rawItem) == rawItem.kind \in {"object", "array"}

\* { ...rawItem }: a plain object with the own properties of rawItem
Spread(rawItem) == [rawItem EXCEPT !.kind = "object"]

\* `${value}` for the identifiers modelled
TemplateString(v) == IF v.t = "number" THEN NumToString(v.n) ELSE v.s

catalogKey_caseSensitive(item) ==
    IF ~IsObject(item) THEN NULL
    ELSE IF item.id.t \notin {"undefined", "null"} /\ item.id # Str(<<>>)
         THEN <<"i", "d", ":">> \o TemplateString(item.id)
    ELSE IF item.title.t = "string" /\ trim(item.title.s) # <<>>
         THEN <<"t", "i", "t", "l", "e", ":">> \o trim(item.title.s)
    ELSE NULL

\* catalogKey returns a string, or null (the empty sequence)
catalogKey(item) ==
    IF ~IsObject(item) THEN NULL
    ELSE IF item.id.t \notin {"undefined", "null"} /\ item.id # Str(<<>>)
         THEN <<"i", "d", ":">> \o TemplateString(item.id)
    ELSE IF item.title.t = "string" /\ trim(item.title.s) # <<>>
         THEN <<"t", "i", "t", "l", "e", ":">>
                \o toLowerCase(trim(item.title.s))
    ELSE NULL

\* `auto:${autoIndex}`
AutoKey(n) == <<"a", "u", "t", "o", ":">> \o NumToString(n)

\* The locals of mergeCatalogItems before the first item
MergeStart ==
    [merged |-> <<>>, positionByKey |-> <<>>, existingKeys |-> {},
     incomingKeys |-> {}, autoIndex |-> 0]

Place_pushAlways(st, key, item) ==
    [st EXCEPT !.positionByKey = (key :> (Len(st.merged) + 1)) @@ @,
               !.merged = Append(@, item)]

\* if (positionByKey.has(key)) merged[...] = item; else set and push
Place(st, key, item) ==
    IF key \in DOMAIN st.positionByKey
    THEN [st EXCEPT !.merged[st.positionByKey[key]] = item]
    ELSE [st EXCEPT !.positionByKey = (key :> (Len(st.merged) + 1)) @@ @,
                    !.merged = Append(@, item)]

registerExisting_seedsInReplace(st, rawItem, replace) ==
    IF ~IsObject(rawItem) THEN st
    ELSE LET item == Spread(rawItem)
             k == catalogKey(item)
             key == IF k = NULL THEN AutoKey(st.autoIndex) ELSE k
             st1 == [st EXCEPT
                       !.existingKeys = @ \cup {key},
                       !.autoIndex = IF k = NULL THEN @ + 1 ELSE @]
         IN  Place(st1, key, item)

registerExisting_dropsKeyless(st, rawItem, replace) ==
    IF ~IsObject(rawItem) THEN st
    ELSE LET item == Spread(rawItem)
             k == catalogKey(item)
         IN  IF k = NULL THEN st
             ELSE IF replace THEN [st EXCEPT !.existingKeys = @ \cup {k}]
             ELSE Place([st EXCEPT !.existingKeys = @ \cup {k}], k, item)

registerExisting(st, rawItem, replace) ==
    IF ~IsObject(rawItem) THEN st
    ELSE LET item == Spread(rawItem)
             k == catalogKey(item)
             key == IF k = NULL THEN AutoKey(st.autoIndex) ELSE k
             st1 == [st EXCEPT
                       !.existingKeys = @ \cup {key},
                       !.autoIndex = IF k = NULL THEN @ + 1 ELSE @]
         IN  IF replace THEN st1 ELSE Place(st1, key, item)

upsert_ownCounter(st, rawItem) ==
    IF ~IsObject(rawItem) THEN st
    ELSE LET item == Spread(rawItem)
             k == catalogKey(item)
             n == Cardinality({x \in st.incomingKeys : Head(x) = "a"})
             key == IF k = NULL THEN AutoKey(n) ELSE k
             st1 == [st EXCEPT !.incomingKeys = @ \cup {key}]
         IN  Place(st1, key, item)

upsert(st, rawItem) ==
    IF ~IsObject(rawItem) THEN st
    ELSE LET item == Spread(rawItem)
             k == catalogKey(item)
             key == IF k = NULL THEN AutoKey(st.autoIndex) ELSE k
             st1 == [st EXCEPT
                       !.incomingKeys = @ \cup {key},
                       !.autoIndex = IF k = NULL THEN @ + 1 ELSE @]
         IN  Place(st1, key, item)

\* existing.forEach(registerExisting)
RECURSIVE ForEachExisting(_, _, _)
ForEachExisting(st, items, replace) ==
    IF items = <<>> THEN st
    ELSE ForEachExisting(registerExisting(st, Head(items), replace),
                         Tail(items), replace)

\* incoming.forEach(upsert)
RECURSIVE ForEachIncoming(_, _)
ForEachIncoming(st, items) ==
    IF items = <<>> THEN st
    ELSE ForEachIncoming(upsert(st, Head(items)), Tail(items))

mergeCatalogItems_allAdded(existing, incoming, replace) ==
    LET st == ForEachIncoming(ForEachExisting(MergeStart, existing, replace),
                              incoming)
    IN  [items |-> st.merged,
         stats |->
           [added |-> Cardinality(st.incomingKeys),
            updated |-> Cardinality(st.incomingKeys \cap st.existingKeys)]]

mergeCatalogItems(existing, incoming, replace) ==
    LET st == ForEachIncoming(ForEachExisting(MergeStart, existing, replace),
                              incoming)
    IN  [items |-> st.merged,
         stats |->
           [added |-> Cardinality(st.incomingKeys \ st.existingKeys),
            updated |-> Cardinality(st.incomingKeys \cap st.existingKeys)]]

\* The body of POST /admin/catalog on the stored catalog current
postAdminCatalog(current, payload) ==
    IF payload.items.t # "array"
    THEN [http |-> 400, catalog |-> current, body |-> NULL]
    ELSE LET items == payload.items.a
             mode == IF payload.mode.t = "string"
                     THEN toLowerCase(payload.mode.s)
                     ELSE <<"r", "e", "p", "l", "a", "c", "e">>
             replace == mode # <<"m", "e", "r", "g", "e">>
             r == mergeCatalogItems(current, items, replace)
         IN  [http |-> 200,
              catalog |-> r.items,
              body |-> [ok |-> TRUE,
                        total |-> Len(r.items),
                        received |-> Len(items),
                        added |-> r.stats.added,
                        updated |-> r.stats.updated,
                        mode |-> IF replace THEN "replace" ELSE "merge"]]

\* The JSON values a catalog file or a request may list
ItemUniverse ==
    {Item("null", Undef, Undef, "n"),
     Item("number", Undef, Undef, "p"),
     Item("array", Undef, Undef, "r"),
     Item("object", Num(1), Undef, "a"),
     Item("object", Str(<<"1">>), Str(<<"T">>), "b"),
     Item("object", Undef, Str(<<" ", "T", " ">>), "c"),
     Item("object", Str(<<>>), Str(<<"t">>), "d"),
     Item("object", JNull, Str(<<" ">>), "e")}

SeqsUpTo(S, n) == UNION {[1..k -> S] : k \in 0..n}

Array(a) == [t |-> "array", a |-> a]

Payloads ==
    [items : {Undef, Str(<<"x">>)}
               \cup {Array(a) : a \in SeqsUpTo(ItemUniverse, MaxIncoming)},
     mode : {Undef, Str(<<"M", "e", "r", "g", "e">>)}]

\* catalog.json may hold any JSON list when the request arrives; every list
\* up to the bound is an initial state, so a request that follows another is
\* the run that starts from the catalog the earlier one saved
CatalogInit ==
    /\ clock = 0
    /\ ticks = 0
    /\ otpCache = <<>>
    /\ clients = <<>>
    /\ resp = [op |-> "none"]
    /\ okCount = [p \in PhoneKeys |-> 0]
    /\ revoked = [p \in PhoneKeys |-> {}]
    /\ catalog \in SeqsUpTo(ItemUniverse, MaxExisting)
    /\ logs = <<>>
    /\ posts = 0
    /\ disk = <<>>
    /\ writer = [pc |-> "idle"]

\* POST /admin/catalog, the first request after the catalog was read
PostAdminCatalog ==
    /\ resp.op = "none"
    /\ \E payload \in Payloads :
        \E r \in {postAdminCatalog(catalog, payload)} :
            /\ catalog' = r.catalog
            /\ resp' = [op |-> "catalog", nth |-> 1, http |-> r.http,
                        payload |-> payload, body |-> r.body]
    /\ UNCHANGED <<clock, ticks, otpCache, clients, okCount, revoked>>
    /\ UNCHANGED storeVars

\* The batches of a second request: the empty list, or one item that has
\* neither a usable id nor a usable title, merged into the saved catalog
FollowUps ==
    {[items |-> Array(a), mode |-> Str(<<"m", "e", "r", "g", "e">>)] :
        a \in SeqsUpTo({x \in ItemUniverse :
                          IsObject(x) /\ catalogKey(Spread(x)) = NULL}, 1)}

\* POST /admin/catalog, the request after a first that merged, on the catalog
\* the first saved
PostAdminCatalogAgain ==
    /\ resp.op = "catalog"
    /\ resp.nth = 1
    /\ resp.http = 200
    /\ \E payload \in FollowUps :
        \E r \in {postAdminCatalog(catalog, payload)} :
            /\ catalog' = r.catalog
            /\ resp' = [op |-> "catalog", nth |-> 2, http |-> r.http,
                        payload |-> payload, body |-> r.body]
    /\ UNCHANGED <<clock, ticks, otpCache, clients, okCount, revoked>>
    /\ UNCHANGED storeVars

CatalogNext == PostAdminCatalog \/ PostAdminCatalogAgain

CatalogSpec == CatalogInit /\ [][CatalogNext]_vars

-----------------------------------------------------------------------------
(* The playback log *)

\* value ?? fallback
Nullish(value, fallback) ==
    IF value.t \in {"undefined", "null"} THEN fallback ELSE value

\* crypto.randomUUID() for a log entry: an id no stored entry carries.  The
\* newest entry is first, so ids number the posts the log has received.
logUUID(l) == IF l = <<>> THEN 1 ELSE l[1].id + 1

LogEntry(l, body, t) ==
    [id |-> logUUID(l),
     event |-> Nullish(body.event, Str(<<"unknown">>)),
     source |-> Nullish(body.source, Str(<<>>)),
     contentId |-> Nullish(body.contentId, JNull),
     reason |-> Nullish(body.reason, JNull),
     timestamp |-> toISOString(t)]

postPlaybackLog_keepsTail(l, body, t) ==
    LET entry == LogEntry(l, body, t)
        unshifted == <<entry>> \o l
    IN  [http |-> 201,
         logs |-> IF Len(unshifted) > MAX_LOG_ENTRIES
                  THEN SubSeq(unshifted, Len(unshifted) - MAX_LOG_ENTRIES + 1,
                              Len(unshifted))
                  ELSE unshifted,
         body |-> entry]

\* The body of POST /logs/playback on the stored log l at time t
postPlaybackLog(l, body, t) ==
    LET entry == LogEntry(l, body, t)
        unshifted == <<entry>> \o l
    IN  [http |-> 201,
         logs |-> IF Len(unshifted) > MAX_LOG_ENTRIES
                  THEN SubSeq(unshifted, 1, MAX_LOG_ENTRIES)
                  ELSE unshifted,
         body |-> entry]

\* The request body with no field set, and the bodies that set event
DefaultLogBody ==
    [event |-> Undef, source |-> Undef, contentId |-> Undef, reason |-> Undef]

LogBodies ==
    {[DefaultLogBody EXCEPT !.event = e] :
        e \in {Undef, JNull, Str(<<"play">>)}}

\* The log that k posts of the default body, all at time 0, leave behind,
\* for k up to the cap: the entries numbered k down to 1
StoredLog(k) ==
    [i \in 1..k |->
        [LogEntry(<<>>, DefaultLogBody, 0) EXCEPT !.id = k + 1 - i]]

\* logs.json when the server starts: empty, or what an earlier run left
LogInit ==
    /\ clock = 0
    /\ ticks = 0
    /\ otpCache = <<>>
    /\ clients = <<>>
    /\ resp = [op |-> "none"]
    /\ okCount = [p \in PhoneKeys |-> 0]
    /\ revoked = [p \in PhoneKeys |-> {}]
    /\ catalog = <<>>
    /\ logs \in {StoredLog(k) : k \in 0..MAX_LOG_ENTRIES}
    /\ posts = 0
    /\ disk = <<>>
    /\ writer = [pc |-> "idle"]

\* POST /logs/playback with one of the given bodies
PostLog(bodies) ==
    /\ posts < MaxPosts
    /\ \E body \in bodies :
        \E r \in {postPlaybackLog(logs, body, clock)} :
            /\ logs' = r.logs
            /\ resp' = [op |-> "log", http |-> r.http, body |-> r.body]
    /\ posts' = posts + 1
    /\ UNCHANGED <<clock, ticks, otpCache, clients, okCount, revoked, catalog,
                   disk, writer>>

PostPlaybackLog == PostLog(LogBodies)

\* GET /logs/playback
GetPlaybackLog ==
    /\ resp' = [op |-> "get-logs", http |-> 200, body |-> logs]
    /\ UNCHANGED <<clock, ticks, otpCache, clients, okCount, revoked, catalog>>
    /\ UNCHANGED storeVars

LogNext == PostPlaybackLog \/ GetPlaybackLog

LogSpec == LogInit /\ [][LogNext]_vars

-----------------------------------------------------------------------------
(* writeJson, one file-system call at a time.  The process can die between *)
(* any two calls and inside writeFileSync, which writes the payload in one *)
(* or more pieces; renameSync replaces the target in one step.             *)

\* path.join(dataRoot, filename)
safePath(filename) == <<"data", "/", filename>>

tempPath_inPlace(filePath) == filePath

\* `${filePath}.tmp`
tempPath(filePath) == filePath \o <<".tmp">>

\* JSON.stringify(data, null, 2) for a list of numbers, one character each
RECURSIVE Elements(_)
Elements(list) ==
    IF list = <<>> THEN <<>>
    ELSE <<"\n", " ", " ">> \o NumToString(Head(list))
           \o (IF Tail(list) = <<>> THEN <<>> ELSE <<",">>)
           \o Elements(Tail(list))

stringify(data) ==
    IF data = <<>> THEN <<"[", "]">>
    ELSE <<"[">> \o Elements(data) \o <<"\n", "]">>

\* The documents written and the file they are written to
Documents == {<<>>, <<1>>, <<1, 2>>}

FilePath == safePath("catalog.json")

\* The file at path: <<text>> when it exists, <<>> when it does not
File(d, path) == IF path \in DOMAIN d THEN <<d[path]>> ELSE <<>>

Remove(d, path) == [q \in DOMAIN d \ {path} |-> d[q]]

\* The target is missing (first start) or holds a document written earlier
WriteInit ==
    /\ clock = 0
    /\ ticks = 0
    /\ otpCache = <<>>
    /\ clients = <<>>
    /\ resp = [op |-> "none"]
    /\ okCount = [p \in PhoneKeys |-> 0]
    /\ revoked = [p \in PhoneKeys |-> {}]
    /\ catalog = <<>>
    /\ logs = <<>>
    /\ posts = 0
    /\ disk \in {<<>>} \cup {FilePath :> stringify(d) : d \in Documents}
    /\ writer = [pc |-> "idle"]

fileVars == <<clock, ticks, otpCache, clients, resp, okCount, revoked,
              catalog, logs, posts>>

\* writeJson(filename, data) is called: filePath, tempPath and payload are
\* computed
WriteJsonBegin ==
    /\ writer.pc = "idle"
    /\ \E data \in Documents :
        writer' = [pc |-> "open", payload |-> stringify(data),
                   before |-> File(disk, FilePath)]
    /\ UNCHANGED disk
    /\ UNCHANGED fileVars

\* writeFileSync opens tempPath with flag "w": created or truncated
OpenTemp ==
    /\ writer.pc = "open"
    /\ disk' = (tempPath(FilePath) :> <<>>) @@ Remove(disk, tempPath(FilePath))
    /\ writer' = [writer EXCEPT !.pc = "write"]
    /\ UNCHANGED fileVars

\* writeFileSync writes the next piece of the payload
WriteSome ==
    /\ writer.pc = "write"
    /\ \E n \in (Len(disk[tempPath(FilePath)]) + 1)..Len(writer.payload) :
        disk' = [disk EXCEPT ![tempPath(FilePath)] = SubSeq(writer.payload, 1, n)]
    /\ UNCHANGED writer
    /\ UNCHANGED fileVars

\* renameSync(tempPath, filePath), once the payload is written
Rename ==
    /\ writer.pc = "write"
    /\ disk[tempPath(FilePath)] = writer.payload
    /\ disk' = (FilePath :> disk[tempPath(FilePath)])
                 @@ Remove(Remove(disk, tempPath(FilePath)), FilePath)
    /\ writer' = [pc |-> "idle"]
    /\ UNCHANGED fileVars

\* The process dies inside writeJson; the files stay as they are
Crash ==
    /\ writer.pc \in {"open", "write"}
    /\ writer' = [writer EXCEPT !.pc = "crashed"]
    /\ UNCHANGED disk
    /\ UNCHANGED fileVars

\* The server is started again
Restart ==
    /\ writer.pc = "crashed"
    /\ writer' = [pc |-> "idle"]
    /\ UNCHANGED disk
    /\ UNCHANGED fileVars

WriteNext ==
    WriteJsonBegin \/ OpenTemp \/ WriteSome \/ Rename \/ Crash \/ Restart

WriteSpec == WriteInit /\ [][WriteNext]_vars

-----------------------------------------------------------------------------
(* The whole server: the handlers above side by side, for two phones, with *)
(* few inputs each.  No validation history is kept here: okCount and       *)
(* revoked have an empty domain, and EXCEPT leaves them as they are.       *)

P6 == <<"6">>

\* No phone, phone 5 with blanks around it, and the phone of SeedClient
ServerPhones == {Undef, Str(<<" ", "5", " ">>), Str(P6)}

ServerKeys == {trim(v.s) : v \in ServerPhones \ {Undef}}

ServerDraws == {100000}

\* The code the draw gives, and a code never issued
ServerOtps ==
    {Str(generateOtp(100000)), Str(<<"0", "0", "0", "0", "0", "0">>)}

\* A body without items, one whose items is a string, and a list of one item
ServerPayloads ==
    [items : {Undef, Str(<<"x">>), Array(<<Item("object", Num(1), Undef, "a")>>)},
     mode : {Undef}]

ServerInit ==
    /\ clock = 0
    /\ ticks = 0
    /\ otpCache = <<>>
    /\ clients \in InitialClients
    /\ resp = [op |-> "none"]
    /\ okCount = [p \in {} |-> 0]
    /\ revoked = [p \in {} |-> {}]
    /\ catalog = <<>>
    /\ logs = <<>>
    /\ posts = 0
    /\ disk = <<>>
    /\ writer = [pc |-> "idle"]

ServerRequestOtp ==
    /\ \E raw \in ServerPhones, n \in ServerDraws :
        IssueOtp("request-otp", raw, n)
    /\ UNCHANGED <<clock, ticks, catalog>>
    /\ UNCHANGED storeVars

ServerResendOtp ==
    /\ \E raw \in ServerPhones, n \in ServerDraws :
        IssueOtp("resend-otp", raw, n)
    /\ UNCHANGED <<clock, ticks, catalog>>
    /\ UNCHANGED storeVars

ServerGetUsers ==
    /\ \E rawPhone \in ServerPhones, rawOtp \in ServerOtps :
        UsersRequest(rawPhone, rawOtp)
    /\ UNCHANGED <<clock, ticks, revoked, catalog>>
    /\ UNCHANGED storeVars

\* POST /admin/catalog, at any time
ServerPostCatalog ==
    /\ \E payload \in ServerPayloads :
        \E r \in {postAdminCatalog(catalog, payload)} :
            /\ catalog' = r.catalog
            /\ resp' = [op |-> "catalog", nth |-> 0, http |-> r.http,
                        payload |-> payload, body |-> r.body]
    /\ UNCHANGED <<clock, ticks, otpCache, clients, okCount, revoked>>
    /\ UNCHANGED storeVars

\* DELETE /admin/catalog
DeleteAdminCatalog ==
    /\ catalog' = <<>>
    /\ resp' = [op |-> "delete-catalog", http |-> 200,
                body |-> [ok |-> TRUE, total |-> 0]]
    /\ UNCHANGED <<clock, ticks, otpCache, clients, okCount, revoked>>
    /\ UNCHANGED storeVars

\* PATCH without a status, or to "active", for a known or an unknown id
ServerPatchClient == Patch(Uuids, {Undef, Str(Active)})

\* The first POST /logs/playback of the run; LogSpec has the later ones
ServerPostLog == posts = 0 /\ PostLog({DefaultLogBody})

ServerNext ==
    \/ Tick
    \/ ServerRequestOtp
    \/ ServerResendOtp
    \/ ServerGetUsers
    \/ ServerPatchClient
    \/ ServerPostCatalog
    \/ DeleteAdminCatalog
    \/ ServerPostLog

ServerSpec == ServerInit /\ [][ServerNext]_vars

-----------------------------------------------------------------------------
(* Steps, as the properties below recognise them.  Tick is the only action *)
(* that changes the clock, and every handler writes its own op into resp.  *)

P5 == <<"5">>

IssueOps == {"request-otp", "resend-otp"}

\* A request-otp or resend-otp that issued a code for phone p
IssueStep(p) ==
    /\ clock' = clock
    /\ resp'.op \in IssueOps
    /\ resp'.http = 200
    /\ resp'.phone = Str(p)

\* A GET /users that reached validateOtp(p, resp'.otp.s)
ValidateStep(p) ==
    /\ clock' = clock
    /\ resp'.op = "users"
    /\ resp'.called
    /\ resp'.phone = Str(p)

UsersStep == clock' = clock /\ resp'.op = "users"

PatchStep == clock' = clock /\ resp'.op = "patch"

\* The entry for p is stored, unexpired at the current time, and holds code
Redeemable(p, code) ==
    /\ Has(otpCache, p)
    /\ clock <= otpCache[p].expiresAt
    /\ otpCache[p].code = code

-----------------------------------------------------------------------------
(* C1: OTP single use.  While the entry issued for p is stored, unexpired  *)
(* and holds c, validate(p, c) returns true and removes the entry; once a  *)
(* validate has returned true, every validate for p returns false until p  *)
(* is issued a code again; so no issued code is redeemed twice.            *)
C1_SingleUse ==
    /\ [](\A p \in PhoneKeys :
            /\ okCount[p] <= 1
            /\ okCount[p] = 1 => ~Has(otpCache, p))
    /\ [][\A p \in PhoneKeys :
            ValidateStep(p) =>
              /\ Redeemable(p, resp'.otp.s) =>
                   resp'.ok /\ ~Has(otpCache', p)
              /\ okCount[p] >= 1 => ~resp'.ok]_vars

\* A validate for phone 5 returned false after the issued code was redeemed
C1_Witness ==
    /\ okCount[P5] = 1
    /\ resp.op = "users"
    /\ resp.called
    /\ resp.phone = Str(P5)
    /\ resp.otp.s \in {generateOtp(n) : n \in OtpDraws}
    /\ ~resp.ok

(* C2: OTP expiry.  An issue at time t stores expiresAt = t + 5 minutes;   *)
(* validate(p, c) with the stored code returns false and deletes the entry *)
(* when now > expiresAt, and returns true when now <= expiresAt, the       *)
(* instant now = expiresAt included.                                       *)
C2_Expiry ==
    [][\A p \in PhoneKeys :
        /\ IssueStep(p) =>
             /\ Has(otpCache', p)
             /\ otpCache'[p].expiresAt = clock + 5 * 60 * 1000
        /\ (ValidateStep(p) /\ Has(otpCache, p)
                            /\ otpCache[p].code = resp'.otp.s) =>
             IF clock > otpCache[p].expiresAt
             THEN ~resp'.ok /\ ~Has(otpCache', p)
             ELSE resp'.ok]_vars

\* The code issued at time 0 was presented one millisecond after its expiry:
\* the answer was false and the entry is gone without having been redeemed
C2_Witness ==
    /\ clock = OTP_TTL_MS + 1
    /\ ticks = 1
    /\ \E i \in 1..Len(clients) : clients[i].phone = P5
    /\ ~Has(otpCache, P5)
    /\ okCount[P5] = 0
    /\ resp.op = "users"
    /\ resp.called
    /\ resp.phone = Str(P5)
    /\ resp.otp.s \in {generateOtp(n) : n \in OtpDraws}
    /\ ~resp.ok

(* C3: wrong-code retry.  A validate(p, x) before expiry with x different  *)
(* from the stored code returns false and leaves the entry for p as it     *)
(* was, so that the stored code still validates afterwards.                *)
C3_WrongCodeRetry ==
    [][\A p \in PhoneKeys :
        (ValidateStep(p) /\ Has(otpCache, p)
                         /\ clock <= otpCache[p].expiresAt
                         /\ otpCache[p].code # resp'.otp.s) =>
          /\ ~resp'.ok
          /\ Has(otpCache', p)
          /\ otpCache'[p] = otpCache[p]
          /\ validateOtp(otpCache', p, otpCache[p].code, clock').ok]_vars

\* A wrong code was just refused and the unexpired entry is still stored
C3_Witness ==
    /\ resp.op = "users"
    /\ resp.called
    /\ resp.phone = Str(P5)
    /\ ~resp.ok
    /\ Has(otpCache, P5)
    /\ clock <= otpCache[P5].expiresAt
    /\ otpCache[P5].code # resp.otp.s

(* C4 as stated: once a pending code for p has been overwritten by a new   *)
(* issue, no later validate(p, that code) returns true.                    *)
C4_OldCodeNeverValidates ==
    [][\A p \in PhoneKeys :
        (ValidateStep(p) /\ resp'.ok) => resp'.otp.s \notin revoked[p]]_vars

(* C4 as amended: an issue for p while an entry is pending leaves exactly  *)
(* one entry for p, holding the new code and the expiry now + TTL, and     *)
(* changes no other key; an overwritten code validates afterwards only if  *)
(* it is the code the stored entry holds, that is, if it was drawn again.  *)
C4_ReissueReplaces ==
    [][\A p \in PhoneKeys :
        /\ (IssueStep(p) /\ Has(otpCache, p)) =>
             /\ DOMAIN otpCache' = DOMAIN otpCache
             /\ otpCache'[p] = [code |-> resp'.code,
                                expiresAt |-> clock + OTP_TTL_MS]
             /\ \A q \in (DOMAIN otpCache) \ {p} : otpCache'[q] = otpCache[q]
        /\ (ValidateStep(p) /\ resp'.ok /\ resp'.otp.s \in revoked[p]) =>
             Redeemable(p, resp'.otp.s)
        /\ (ValidateStep(p) /\ Has(otpCache, p)
                            /\ otpCache[p].code # resp'.otp.s) =>
             ~resp'.ok]_vars

\* An overwritten code was presented while a different code was pending,
\* and was refused
C4_Witness ==
    /\ resp.op = "users"
    /\ resp.called
    /\ resp.phone = Str(P5)
    /\ ~resp.ok
    /\ resp.otp.s \in revoked[P5]
    /\ Has(otpCache, P5)
    /\ clock <= otpCache[P5].expiresAt
    /\ otpCache[P5].code # resp.otp.s

(* C5: lookup gating.  GET /users answers with a client record only if the *)
(* trimmed phone and otp are non-empty and an unexpired entry for the      *)
(* phone holds that otp; the request then consumes the entry and the       *)
(* record is the one with that phone.  In every other case the answer is   *)
(* the empty list and the client list is unchanged.                        *)
C5_LookupGated ==
    [][UsersStep =>
        LET phone == resp'.phone
            otp == resp'.otp
            gate == /\ Truthy(phone)
                    /\ Truthy(otp)
                    /\ Redeemable(phone.s, otp.s)
        IN  /\ resp'.body # <<>> =>
                 /\ gate
                 /\ ~Has(otpCache', phone.s)
                 /\ Len(resp'.body) = 1
                 /\ resp'.body[1].phone = phone.s
                 /\ \E i \in 1..Len(clients') :
                        /\ clients'[i].id = resp'.body[1].id
                        /\ clients'[i].phone = phone.s
            /\ ~gate => resp'.body = <<>> /\ clients' = clients]_vars

\* A lookup was answered with the record of phone 5
C5_Witness ==
    /\ resp.op = "users"
    /\ resp.ok
    /\ Len(resp.body) = 1
    /\ resp.body[1].phone = P5

(* C6: issue guarantees a client.  Every phone with an entry in the OTP    *)
(* map has a client record; a record appended to the list has status       *)
(* "pending" and validatedAt null.                                         *)
C6_IssueEnsuresClient ==
    /\ [](\A p \in DOMAIN otpCache :
            \E i \in 1..Len(clients) : clients[i].phone = p)
    /\ [][Len(clients') > Len(clients) =>
            /\ Len(clients') = Len(clients) + 1
            /\ clients'[Len(clients')].status = Pending
            /\ clients'[Len(clients')].validatedAt = NULL
            /\ resp'.op \in IssueOps
            /\ resp'.phone = Str(clients'[Len(clients')].phone)]_vars

\* A code is pending for phone 5 and its client record is the new one
C6_Witness ==
    /\ Has(otpCache, P5)
    /\ resp.op \in IssueOps
    /\ Len(clients) = 2
    /\ clients[2].phone = P5
    /\ clients[2].status = Pending

(* C7: phone is a unique key.  No two client records share a phone.        *)
C7_PhoneUnique ==
    \A i, j \in 1..Len(clients) :
        clients[i].phone = clients[j].phone => i = j

\* Phone 5 was issued a second code while the first was pending, was then
\* looked up, and has one record
C7_Witness ==
    /\ revoked[P5] # {}
    /\ resp.op = "users"
    /\ resp.ok
    /\ Cardinality({i \in 1..Len(clients) : clients[i].phone = P5}) = 1

(* C8: client records are permanent and stable.  Every record stays in the *)
(* list with the same id, phone, name and createdAt; a record changes only *)
(* in a successful PATCH addressed to its id, and that PATCH changes no    *)
(* other record.                                                           *)
C8_RecordsStable ==
    [][/\ Len(clients') >= Len(clients)
       /\ \A i \in 1..Len(clients) :
            /\ clients'[i].id = clients[i].id
            /\ clients'[i].phone = clients[i].phone
            /\ clients'[i].name = clients[i].name
            /\ clients'[i].createdAt = clients[i].createdAt
            /\ clients'[i] # clients[i] =>
                 /\ PatchStep
                 /\ resp'.http = 200
                 /\ resp'.id = clients[i].id
                 /\ Len(clients') = Len(clients)
                 /\ \A j \in 1..Len(clients) :
                        j # i => clients'[j] = clients[j]]_vars

\* A PATCH changed the second record while the first one is as it was
C8_Witness ==
    /\ resp.op = "patch"
    /\ resp.http = 200
    /\ Len(clients) = 2
    /\ clients[1] = SeedClient
    /\ clients[2].status # Pending
    /\ clients[2].validatedAt # NULL

IsActive(status) == status.t = "string" /\ toLowerCase(status.s) = Active

(* C9 as stated: a successful PATCH sets validatedAt to the current time   *)
(* when it moves the record from a status that is not "active" to one that *)
(* is (case-insensitively), and every other PATCH leaves validatedAt as it *)
(* was.                                                                    *)
C9_SetOnTransitionOnly ==
    [][PatchStep =>
        \A i \in 1..Len(clients) :
            IF /\ resp'.http = 200
               /\ resp'.id = clients[i].id
               /\ IsActive(clients'[i].status)
               /\ ~IsActive(clients[i].status)
            THEN clients'[i].validatedAt = toISOString(clock)
            ELSE clients'[i].validatedAt = clients[i].validatedAt]_vars

(* C9 as amended: a successful PATCH whose status is "active" in any case  *)
(* sets validatedAt to the current time, whether or not the record was     *)
(* active before; every other PATCH leaves validatedAt as it was.          *)
C9_SetWheneverActive ==
    [][PatchStep =>
        \A i \in 1..Len(clients) :
            IF /\ resp'.http = 200
               /\ resp'.id = clients[i].id
               /\ IsActive(clients'[i].status)
            THEN clients'[i].validatedAt = toISOString(clock)
            ELSE clients'[i].validatedAt = clients[i].validatedAt]_vars

\* A PATCH with status "Active" stamped the record after the clock advanced
C9_Witness ==
    /\ resp.op = "patch"
    /\ resp.http = 200
    /\ resp.body.status = Str(<<"A", "c", "t", "i", "v", "e">>)
    /\ clock > 0
    /\ resp.body.validatedAt = toISOString(clock)

-----------------------------------------------------------------------------
(* The keys of a list of items, derived one item at a time: NULL for an    *)
(* item that is skipped, catalogKey where it gives one, and otherwise the  *)
(* auto key numbered n, n + 1, ... in order.                               *)

RECURSIVE KeysFrom(_, _)
KeysFrom(items, n) ==
    IF items = <<>> THEN <<>>
    ELSE IF ~IsObject(Head(items))
         THEN <<NULL>> \o KeysFrom(Tail(items), n)
    ELSE IF catalogKey(Spread(Head(items))) = NULL
         THEN <<AutoKey(n)>> \o KeysFrom(Tail(items), n + 1)
    ELSE <<catalogKey(Spread(Head(items)))>> \o KeysFrom(Tail(items), n)

AutoCount(items) ==
    Cardinality({i \in 1..Len(items) :
                    /\ IsObject(items[i])
                    /\ catalogKey(Spread(items[i])) = NULL})

ExistingKeySet(existing) == Range(KeysFrom(existing, 0)) \ {NULL}

IncomingKeySet(existing, incoming) ==
    Range(KeysFrom(incoming, AutoCount(existing))) \ {NULL}

\* slot is a copy of raw: the same id, title and content
CopyOf(slot, raw) ==
    /\ slot.id = raw.id
    /\ slot.title = raw.title
    /\ slot.v = raw.v

\* The first request was a POST /admin/catalog that merged in the given mode
MergeStep(mode) ==
    /\ resp.op = "none"
    /\ resp'.op = "catalog"
    /\ resp'.http = 200
    /\ resp'.body.mode = mode

(* C10: replace-mode destruction.  In replace mode every slot of the       *)
(* result is a copy of an incoming object item, an existing item that is   *)
(* not also incoming appears nowhere in it, and updated counts the         *)
(* distinct incoming keys that are keys of existing items, added the       *)
(* other distinct incoming keys.                                           *)
C10_ReplaceDestruction ==
    [][MergeStep("replace") =>
        LET incoming == resp'.payload.items.a
            ex == ExistingKeySet(catalog)
            inc == IncomingKeySet(catalog, incoming)
        IN  /\ \A i \in 1..Len(catalog') :
                 \E j \in 1..Len(incoming) :
                    IsObject(incoming[j]) /\ CopyOf(catalog'[i], incoming[j])
            /\ \A k \in 1..Len(catalog) :
                 (\A j \in 1..Len(incoming) : ~CopyOf(catalog[k], incoming[j]))
                   => \A i \in 1..Len(catalog') : ~CopyOf(catalog'[i], catalog[k])
            /\ resp'.body.updated = Cardinality(inc \cap ex)
            /\ resp'.body.added = Cardinality(inc \ ex)]_vars

\* A replace of a stored catalog answered one key updated and one added,
\* and the two incoming items are the whole result
C10_Witness ==
    /\ resp.op = "catalog"
    /\ resp.http = 200
    /\ resp.body.mode = "replace"
    /\ resp.body.updated = 1
    /\ resp.body.added = 1
    /\ Len(catalog) = 2
    /\ resp.body.total = 2

\* A POST /admin/catalog, first or second, that merged in the given mode
CatalogStep(mode) ==
    /\ resp' # resp
    /\ resp'.op = "catalog"
    /\ resp'.http = 200
    /\ resp'.body.mode = mode

\* keys without NULL and without the later occurrences of a key
RECURSIVE FirstOccurrences(_, _)
FirstOccurrences(keys, seen) ==
    IF keys = <<>> THEN <<>>
    ELSE IF Head(keys) = NULL \/ Head(keys) \in seen
         THEN FirstOccurrences(Tail(keys), seen)
    ELSE <<Head(keys)>> \o FirstOccurrences(Tail(keys), seen \cup {Head(keys)})

\* The last position of keys that holds key k
LastIndex(keys, k) ==
    CHOOSE i \in 1..Len(keys) :
        /\ keys[i] = k
        /\ \A j \in (i + 1)..Len(keys) : keys[j] # k

(* C11: merge-mode position stability.  In merge mode the slots of the     *)
(* result are, in order, the distinct keys of the existing items in order  *)
(* of first appearance, then the incoming keys not among them in order of  *)
(* first appearance; each slot holds the last item that has its key, so an *)
(* incoming item whose key has a slot replaces the value in place and no   *)
(* slot moves or disappears.                                               *)
C11_MergePositionStable ==
    [][CatalogStep("merge") =>
        \A incoming \in {resp'.payload.items.a} :
        \A exKeys \in {KeysFrom(catalog, 0)} :
        \A inKeys \in {KeysFrom(incoming, AutoCount(catalog))} :
        \A kept \in {FirstOccurrences(exKeys, {})} :
        \A new \in {FirstOccurrences(inKeys, Range(exKeys))} :
        \A order \in {kept \o new} :
        \A all \in {catalog \o incoming} :
        \A allKeys \in {exKeys \o inKeys} :
            /\ Len(catalog') = Len(order)
            /\ \A i \in 1..Len(order) :
                 CopyOf(catalog'[i], all[LastIndex(allKeys, order[i])])]_vars

\* A merge of two items into two stored ones replaced the first slot in
\* place, left the second alone and appended the new item third
C11_Witness ==
    /\ resp.op = "catalog"
    /\ resp.nth = 1
    /\ resp.http = 200
    /\ resp.body.mode = "merge"
    /\ resp.body.updated = 1
    /\ resp.body.added = 1
    /\ Len(catalog) = 3
    /\ Len(resp.payload.items.a) = 2
    /\ CopyOf(catalog[1], resp.payload.items.a[1])
    /\ \A j \in 1..2 : ~CopyOf(catalog[2], resp.payload.items.a[j])
    /\ CopyOf(catalog[3], resp.payload.items.a[2])

\* item.id is a usable identifier: not undefined, not null, not ""
HasId(item) == item.id.t \notin {"undefined", "null"} /\ item.id # Str(<<>>)

\* item.title is a string with something left after trimming
HasTitle(item) == item.title.t = "string" /\ trim(item.title.s) # <<>>

\* Two object items name the same catalog entry: the same usable id, or no
\* usable id and the same trimmed lower-cased title
SameIdentity(a, b) ==
    /\ IsObject(a)
    /\ IsObject(b)
    /\ \/ /\ HasId(a)
          /\ HasId(b)
          /\ TemplateString(a.id) = TemplateString(b.id)
       \/ /\ ~HasId(a)
          /\ ~HasId(b)
          /\ HasTitle(a)
          /\ HasTitle(b)
          /\ toLowerCase(trim(a.title.s)) = toLowerCase(trim(b.title.s))

\* The positions of items that hold an object no later item shares its
\* identity with: one position for every distinct key of the list
LastOfIdentity(items) ==
    {j \in 1..Len(items) :
        /\ IsObject(items[j])
        /\ \A k \in (j + 1)..Len(items) : ~SameIdentity(items[j], items[k])}

(* C12: deduplication by key.  In both modes no two slots of the result    *)
(* name the same entry (the same usable id, or no usable id and the same   *)
(* trimmed lower-cased title); of the incoming items that share an entry   *)
(* the last one is the slot's value; and added + updated counts every      *)
(* distinct incoming key once.                                             *)
C12_DedupByKey ==
    [][(CatalogStep("merge") \/ CatalogStep("replace")) =>
        \A incoming \in {resp'.payload.items.a} :
        \A last \in {LastOfIdentity(incoming)} :
            /\ \A i, j \in 1..Len(catalog') :
                 SameIdentity(catalog'[i], catalog'[j]) => i = j
            /\ \A j \in last :
                 \E i \in 1..Len(catalog') : CopyOf(catalog'[i], incoming[j])
            /\ \A j \in last :
                 \A i \in 1..Len(catalog') :
                    SameIdentity(catalog'[i], incoming[j]) =>
                        CopyOf(catalog'[i], incoming[j])
            /\ resp'.body.added + resp'.body.updated = Cardinality(last)]_vars

\* Two incoming items with different content shared a key: the result has
\* one slot for it, holding the second, and the key was counted once
C12_Witness ==
    /\ resp.op = "catalog"
    /\ resp.nth = 1
    /\ resp.http = 200
    /\ Len(resp.payload.items.a) = 2
    /\ SameIdentity(resp.payload.items.a[1], resp.payload.items.a[2])
    /\ resp.payload.items.a[1].v # resp.payload.items.a[2].v
    /\ resp.body.added + resp.body.updated = 1
    /\ Len(catalog) = 1
    /\ CopyOf(catalog[1], resp.payload.items.a[2])

\* The second request merged the empty list into the result of the first
EmptyMergeStep ==
    /\ resp.op = "catalog"
    /\ resp.nth = 1
    /\ resp.http = 200
    /\ resp'.op = "catalog"
    /\ resp'.nth = 2
    /\ resp'.payload.items.a = <<>>
    /\ resp'.body.mode = "merge"

(* C13: merge idempotence on empty input.  Merging the empty list, in      *)
(* merge mode, into the result R of a merge call leaves R as it is, the    *)
(* same items in the same order, and reports added 0 and updated 0, also   *)
(* when R holds items with neither id nor title.                           *)
C13_EmptyMergeIdentity ==
    [][EmptyMergeStep =>
        /\ catalog' = catalog
        /\ resp'.http = 200
        /\ resp'.body.added = 0
        /\ resp'.body.updated = 0
        /\ resp'.body.total = Len(catalog)
        /\ resp'.body.received = 0]_vars

\* The empty list was merged into a saved result of three slots, two of them
\* without id or title
C13_Witness ==
    /\ resp.op = "catalog"
    /\ resp.nth = 2
    /\ resp.payload.items.a = <<>>
    /\ resp.body.total = 3
    /\ Len(catalog) = 3
    /\ Cardinality({i \in 1..3 : ~HasId(catalog[i]) /\ ~HasTitle(catalog[i])}) = 2

\* rawItem is a dictionary: a JSON object, not null, a primitive or a list
IsDictionary(rawItem) == rawItem.kind = "object"

Dictionaries(items) == SelectSeq(items, IsDictionary)

(* C14: non-object items are skipped.  An element of the stored or of the  *)
(* incoming list that is not a dictionary (null, a primitive, a list)      *)
(* gives no key, no slot and no count: every slot of the result is a copy  *)
(* of a dictionary, result and statistics are those of the same call on    *)
(* the dictionaries alone, and received still counts every element.        *)
C14_NonObjectsSkipped ==
    [][(CatalogStep("merge") \/ CatalogStep("replace")) =>
        \A incoming \in {resp'.payload.items.a} :
        \A r \in {mergeCatalogItems(Dictionaries(catalog),
                                    Dictionaries(incoming),
                                    resp'.body.mode = "replace")} :
            /\ resp'.body.received = Len(incoming)
            /\ \A i \in 1..Len(catalog') :
                 \E item \in Range(catalog) \cup Range(incoming) :
                    IsDictionary(item) /\ CopyOf(catalog'[i], item)
            /\ catalog' = r.items
            /\ resp'.body.added = r.stats.added
            /\ resp'.body.updated = r.stats.updated]_vars

\* A batch of one list and nothing else was posted to the empty catalog:
\* the list was stored as a slot and counted as added
C14_Witness ==
    /\ resp.op = "catalog"
    /\ resp.nth = 1
    /\ resp.http = 200
    /\ Len(resp.payload.items.a) = 1
    /\ resp.payload.items.a[1].kind = "array"
    /\ resp.body.received = 1
    /\ resp.body.added = 1
    /\ Len(catalog) = 1
    /\ CopyOf(catalog[1], resp.payload.items.a[1])

\* An object item with neither a usable id nor a usable title
Keyless(item) == IsObject(item) /\ ~HasId(item) /\ ~HasTitle(item)

\* a and b have the same length and a[i] is a copy of b[i] throughout
CopiesOf(a, b) ==
    /\ Len(a) = Len(b)
    /\ \A i \in 1..Len(a) : CopyOf(a[i], b[i])

(* C15: auto keys never collide.  In both modes, on the first request and  *)
(* on the one that follows on the saved catalog, every incoming object     *)
(* item with neither a usable id nor a usable title gets a new slot of its *)
(* own after the slots seeded from the stored catalog, in batch order; the *)
(* stored items of that kind keep their own slots in merge mode; and such  *)
(* an item is counted as added, updated counting only incoming keys made   *)
(* from an id or a title that a stored item has too.                       *)
C15_AutoKeysNeverCollide ==
    [][(CatalogStep("merge") \/ CatalogStep("replace")) =>
        \A incoming \in {resp'.payload.items.a} :
        \A last \in {LastOfIdentity(incoming)} :
        \A seeded \in {IF resp'.body.mode = "merge"
                       THEN Cardinality(LastOfIdentity(catalog)) ELSE 0} :
        \A shared \in {{j \in last :
                          \E k \in 1..Len(catalog) :
                             SameIdentity(catalog[k], incoming[j])}} :
            /\ seeded <= Len(catalog')
            /\ CopiesOf(SelectSeq(SubSeq(catalog', seeded + 1, Len(catalog')),
                                  Keyless),
                        SelectSeq(incoming, Keyless))
            /\ resp'.body.mode = "merge" =>
                 CopiesOf(SelectSeq(SubSeq(catalog', 1, seeded), Keyless),
                          SelectSeq(catalog, Keyless))
            /\ resp'.body.updated = Cardinality(shared)
            /\ resp'.body.added = Cardinality(last \ shared)
            /\ \A j \in shared : ~Keyless(incoming[j])]_vars

\* The second request merged one item without id or title into a saved
\* catalog of two such items: it was added as a third slot
C15_Witness ==
    /\ resp.op = "catalog"
    /\ resp.nth = 2
    /\ resp.body.mode = "merge"
    /\ Len(resp.payload.items.a) = 1
    /\ Keyless(resp.payload.items.a[1])
    /\ resp.body.added = 1
    /\ resp.body.updated = 0
    /\ Len(catalog) = 3
    /\ \A i \in 1..3 : Keyless(catalog[i])
    /\ CopyOf(catalog[3], resp.payload.items.a[1])

(* C20: merge statistics accounting.  For every merge call added + updated *)
(* is the number of distinct keys among the incoming object items; in      *)
(* replace mode the result has added + updated slots, in merge mode it has *)
(* one slot for every distinct key among the stored object items plus      *)
(* added; the response reports that length as total.                       *)
C20_StatsAccounting ==
    [][(CatalogStep("merge") \/ CatalogStep("replace")) =>
        \A distinctIncoming \in
              {Cardinality(LastOfIdentity(resp'.payload.items.a))} :
        \A distinctExisting \in {Cardinality(LastOfIdentity(catalog))} :
            /\ resp'.body.added + resp'.body.updated = distinctIncoming
            /\ resp'.body.total = Len(catalog')
            /\ resp'.body.mode = "replace" =>
                 Len(catalog') = resp'.body.added + resp'.body.updated
            /\ resp'.body.mode = "merge" =>
                 Len(catalog') = distinctExisting + resp'.body.added]_vars

\* A replace whose two incoming items shared one key that a stored item had
\* too answered updated 1, added 0, and the result has one slot
C20_Witness ==
    /\ resp.op = "catalog"
    /\ resp.nth = 1
    /\ resp.http = 200
    /\ resp.body.mode = "replace"
    /\ resp.body.received = 2
    /\ SameIdentity(resp.payload.items.a[1], resp.payload.items.a[2])
    /\ resp.body.updated = 1
    /\ resp.body.added = 0
    /\ resp.body.total = 1
    /\ Len(catalog) = 1

\* A POST /logs/playback was handled
LogStep == posts' = posts + 1 /\ resp'.op = "log"

\* The number of posts the log has received since it was empty
PostsEver(l) == IF l = <<>> THEN 0 ELSE l[1].id

Min(a, b) == IF a <= b THEN a ELSE b

(* C16: log capping.  The stored log never has more than MAX_LOG_ENTRIES   *)
(* entries; a POST /logs/playback puts its entry first, keeps the entries  *)
(* that were stored in their order behind it and drops what no longer fits *)
(* from the tail; a log that has received n posts since it was empty holds *)
(* the n newest up to the cap, so MAX_LOG_ENTRIES + 1 posts leave exactly  *)
(* MAX_LOG_ENTRIES entries.                                                *)
C16_LogCapped ==
    /\ [](/\ Len(logs) <= MAX_LOG_ENTRIES
          /\ Len(logs) = Min(PostsEver(logs), MAX_LOG_ENTRIES)
          /\ \A i \in 1..Len(logs) : logs[i].id = PostsEver(logs) + 1 - i)
    /\ [][LogStep =>
            /\ resp'.http = 201
            /\ Len(logs') = Min(Len(logs) + 1, MAX_LOG_ENTRIES)
            /\ logs'[1] = resp'.body
            /\ \A i \in 2..Len(logs') : logs'[i] = logs[i - 1]]_vars

\* The post after the log became full: the log still has MAX_LOG_ENTRIES
\* entries, the new one first and the second post ever last
C16_Witness ==
    /\ resp.op = "log"
    /\ posts = 2
    /\ PostsEver(logs) = MAX_LOG_ENTRIES + 1
    /\ Len(logs) = MAX_LOG_ENTRIES
    /\ logs[1] = resp.body
    /\ logs[MAX_LOG_ENTRIES].id = 2

\* text is the whole JSON text of a document
Complete(text) == \E d \in Documents : text = stringify(d)

(* C18: atomic document write.  The target file, when it exists, always    *)
(* holds the whole text of a document; from the call of writeJson to its   *)
(* return, and after a crash inside it, the target is what it was before   *)
(* the call or the whole new payload; and a write that returns has put the *)
(* payload there.                                                          *)
C18_AtomicWrite ==
    /\ [](/\ FilePath \in DOMAIN disk => Complete(disk[FilePath])
          /\ writer.pc # "idle" =>
                File(disk, FilePath) \in {writer.before, <<writer.payload>>})
    /\ [][(writer.pc = "write" /\ writer'.pc = "idle") =>
            /\ File(disk', FilePath) = <<writer.payload>>
            /\ tempPath(FilePath) \notin DOMAIN disk']_vars

\* The process died with part of the payload written: the temporary file
\* holds a proper piece of it and the target still holds the old document
C18_Witness ==
    /\ writer.pc = "crashed"
    /\ tempPath(FilePath) \in DOMAIN disk
    /\ Len(disk[tempPath(FilePath)]) \in 1..(Len(writer.payload) - 1)
    /\ writer.before # <<>>
    /\ writer.before # <<writer.payload>>
    /\ File(disk, FilePath) = writer.before

\* The four stores a request can change
stores == <<catalog, clients, logs, otpCache>>

(* C17: rejected requests mutate nothing.  POST /admin/catalog whose items *)
(* is not a list, PATCH without a status and request-otp or resend-otp     *)
(* without a phone are answered 400, PATCH for an id no client has is      *)
(* answered 404, and the step of every request answered with an error      *)
(* leaves the catalog, the client list, the log and the OTP map unchanged. *)
C17_RejectedMutateNothing ==
    [][/\ (resp'.op = "catalog" /\ resp'.payload.items.t # "array") =>
            resp'.http = 400 /\ UNCHANGED stores
       /\ (resp'.op = "patch" /\ ~Truthy(resp'.status)) =>
            resp'.http = 400 /\ UNCHANGED stores
       /\ (resp'.op = "patch" /\ Truthy(resp'.status)
                              /\ FindById(clients, resp'.id) = 0) =>
            resp'.http = 404 /\ UNCHANGED stores
       /\ (resp'.op \in IssueOps /\ ~Truthy(resp'.phone)) =>
            resp'.http = 400 /\ UNCHANGED stores
       /\ (resp'.op # "none" /\ resp'.http >= 400) =>
            UNCHANGED stores]_vars

\* A PATCH for an unknown id was answered 404 while the catalog, the log
\* and the OTP map each held something and a second client existed
C17_Witness ==
    /\ resp.op = "patch"
    /\ resp.http = 404
    /\ catalog # <<>>
    /\ logs # <<>>
    /\ Has(otpCache, P5)
    /\ Len(clients) = 2

\* The entry of phone p: <<entry>> when the map has one, <<>> when not
EntryOf(cache, p) == IF Has(cache, p) THEN <<cache[p]>> ELSE <<>>

(* C19: per-phone isolation and lazy reaping.  The entry of phone p leaves *)
(* the map only in a validate for p that presents its code before expiry   *)
(* or comes after expiry; it is stored or replaced only in an issue for p; *)
(* every other step -- issue or validate for another phone, the clock      *)
(* advancing, a catalog, client or log request -- leaves its code and      *)
(* expiresAt as they are, so an expired entry stays until then.            *)
C19_PerPhoneIsolation ==
    [][\A p \in ServerKeys :
        /\ (Has(otpCache, p) /\ ~Has(otpCache', p)) =>
             /\ ValidateStep(p)
             /\ \/ /\ clock <= otpCache[p].expiresAt
                   /\ resp'.otp.s = otpCache[p].code
                \/ clock > otpCache[p].expiresAt
        /\ (Has(otpCache', p) /\ EntryOf(otpCache', p) # EntryOf(otpCache, p)) =>
             IssueStep(p)
        /\ (~IssueStep(p) /\ ~ValidateStep(p)) =>
             EntryOf(otpCache', p) = EntryOf(otpCache, p)]_vars

\* Phone 6 redeemed its code after the entry of phone 5 had expired, and
\* the expired entry of phone 5 is still in the map
C19_Witness ==
    /\ Has(otpCache, P5)
    /\ clock > otpCache[P5].expiresAt
    /\ resp.op = "users"
    /\ resp.phone = Str(P6)
    /\ resp.ok
    /\ ~Has(otpCache, P6)

=============================================================================
